---- MODULE Spec2Model ----
(***************************************************************************)
(* Lattice construction and decoding engine of the tokenizer visualizer    *)
(* (utils/tokenizerEngine.ts) together with the module-level vocabulary    *)
(* tables of constants.ts.                                                  *)
(*                                                                         *)
(* Strings are sequences of characters; a character is a TLA+ string that  *)
(* names one UTF-16 code unit ("a", " ", "U+0301").  Numbers that are      *)
(* floating point in the source (raw scores, probabilities, costs) are     *)
(* fixed-point integers with three decimals: 1000 stands for 1.0.          *)
(***************************************************************************)
EXTENDS Integers, Sequences, FiniteSets, TLC

\* ------------------------------------------------------------------------
\* Bounds of the model
\* ------------------------------------------------------------------------
MaxTextLen == 2
MaxVocab == 2
MaxSwitches == 2

\* ------------------------------------------------------------------------
\* Generic helpers
\* ------------------------------------------------------------------------
MinOf(S) == CHOOSE x \in S : \A y \in S : x <= y
MaxOf(S) == CHOOSE x \in S : \A y \in S : x >= y

RECURSIVE Flatten(_)
Flatten(ss) == IF ss = <<>> THEN <<>> ELSE Head(ss) \o Flatten(Tail(ss))

RECURSIVE SumSeq(_)
SumSeq(s) == IF s = <<>> THEN 0 ELSE Head(s) + SumSeq(Tail(s))

SeqsUpTo(S, n) == UNION {[1..k -> S] : k \in 0..n}

\* text.substring(i, j) with 0-based i (inclusive) and j (exclusive)
substring(text, i, j) == SubSeq(text, i + 1, j)

\* template literal `${n}` for a non-negative integer
Digit(d) ==
  CASE d = 0 -> "0" [] d = 1 -> "1" [] d = 2 -> "2" [] d = 3 -> "3" [] d = 4 -> "4"
    [] d = 5 -> "5" [] d = 6 -> "6" [] d = 7 -> "7" [] d = 8 -> "8" [] d = 9 -> "9"

RECURSIVE NumStr(_)
NumStr(n) == IF n < 10 THEN <<Digit(n)>> ELSE NumStr(n \div 10) \o <<Digit(n % 10)>>

\* ------------------------------------------------------------------------
\* Fixed-point arithmetic for Math.exp / Math.log
\* ------------------------------------------------------------------------
Scale == 1000

\* Math.exp(score) for the raw scores that occur, in thousandths
ExpMilli(s) ==
  CASE s = 0 -> 1000 [] s = 500 -> 1649 [] s = 1000 -> 2718 [] s = 2000 -> 7389
    [] s = 3000 -> 20086 [] s = 4000 -> 54598 [] s = 5000 -> 148413
    [] s = 6000 -> 403429 [] s = 7000 -> 1096633

RECURSIVE Log2Floor(_)
Log2Floor(n) == IF n < 2 THEN 0 ELSE 1 + Log2Floor(n \div 2)

RECURSIVE Pow2(_)
Pow2(k) == IF k = 0 THEN 1 ELSE 2 * Pow2(k - 1)

\* Math.log(n) for an integer n >= 1, in thousandths: n = 2^k * m with m in
\* [1,2), ln n = k ln 2 + 2 artanh((m-1)/(m+1)), the series cut after y^7.
LnMilli(n) ==
  LET k  == Log2Floor(n)
      sh == IF k > 15 THEN k - 15 ELSE 0
      m  == n \div Pow2(sh)
      p  == Pow2(k - sh)
      y  == ((m - p) * 10000) \div (m + p)
      y2 == (y * y) \div 10000
      t3 == (y * y2) \div 10000
      t5 == (t3 * y2) \div 10000
      t7 == (t5 * y2) \div 10000
      ln == (k * 69315) \div 10 + 2 * (y + t3 \div 3 + t5 \div 5 + t7 \div 7)
  IN  (ln + 5) \div 10

\* ------------------------------------------------------------------------
\* types.ts
\* ------------------------------------------------------------------------
BPE == "BPE"
WORDPIECE == "WordPiece"
UNIGRAM == "Unigram"
AlgorithmType == {BPE, WORDPIECE, UNIGRAM}

VI(tok, sc) == [token |-> tok, score |-> sc]

\* ------------------------------------------------------------------------
\* constants.ts
\* ------------------------------------------------------------------------
FALLBACK_VOCAB ==
  <<
     VI(<<"t">>, 1000),
     VI(<<"t", "h">>, 2000),
     VI(<<"t", "h", "e">>, 5000),
     VI(<<"a">>, 1000),
     VI(<<"a", "n">>, 2000),
     VI(<<"u", "n">>, 3000),
     VI(<<"i", "n">>, 2000),
     VI(<<"i", "n", "t", "e", "r">>, 4000),
     VI(<<"r", "u", "n">>, 3000),
     VI(<<"r", "u", "n", "n", "i", "n", "g">>, 6000),
     VI(<<"a", "t">>, 1000),
     VI(<<"t", "r", "e">>, 2000),
     VI(<<"r", "e">>, 1000),
     VI(<<"r">>, 500),
     VI(<<"i", "n", "g">>, 4000),
     VI(<<"n">>, 500),
     VI(<<"i">>, 500),
     VI(<<"t", "i", "o", "n">>, 5000),
     VI(<<"n", "a", "t", "i", "o", "n", "a", "l">>, 6000),
     VI(<<"a", "l", "i">>, 3000),
     VI(<<"z", "a", "t", "i", "o", "n">>, 5000),
     VI(<<"i", "s">>, 2000),
     VI(<<"o", "n">>, 1000),
     VI(<<"c", "o", "u", "n", "t">>, 4000),
     VI(<<"e", "r">>, 2000),
     VI(<<"i", "n", "t", "u", "i">>, 4000),
     VI(<<"t", "i", "v", "e">>, 4000),
     VI(<<"h", "a", "p", "p">>, 3000),
     VI(<<"y">>, 1000),
     VI(<<"n", "e", "s", "s">>, 3000),
     VI(<<"e", "s", "t">>, 2000),
     VI(<<"l", "o", "w">>, 3000),
     VI(<<"n", "e", "w">>, 3000),
     VI(<<"n", "e", "u", "r", "a", "l">>, 5000),
     VI(<<"n", "e", "t">>, 3000),
     VI(<<"w", "o", "r", "k">>, 3000),
     VI(<<"w", "o", "r", "k", "s">>, 4000),
     VI(<<"t", "o", "k", "e", "n">>, 5000),
     VI(<<"t", "o", "k", "e", "n", "i">>, 4000),
     VI(<<"t", "o", "k", "e", "n", "i", "z">>, 5000),
     VI(<<"t", "o", "k", "e", "n", "i", "z", "e">>, 6000),
     VI(<<"t", "o", "k", "e", "n", "i", "z", "e", "r">>, 7000),
     VI(<<"i", "z", "e">>, 3000),
     VI(<<"i", "z", "e", "r">>, 4000),
     VI(<<"#", "#", "i", "n", "g">>, 4000),
     VI(<<"#", "#", "t", "i", "o", "n">>, 5000),
     VI(<<"#", "#", "e", "r">>, 2000),
     VI(<<"#", "#", "n", "e", "s", "s">>, 3000),
     VI(<<"#", "#", "y">>, 1000),
     VI(<<"#", "#", "s">>, 1000)
  >>

\* Array.prototype.sort((a, b) => b.score - a.score): stable, descending score
RECURSIVE InsertByScoreDesc(_, _)
InsertByScoreDesc(v, sorted) ==
  IF sorted = <<>> THEN <<v>>
  ELSE IF Head(sorted).score >= v.score
       THEN <<Head(sorted)>> \o InsertByScoreDesc(v, Tail(sorted))
       ELSE <<v>> \o sorted

RECURSIVE SortByScoreDesc(_)
SortByScoreDesc(vs) ==
  IF vs = <<>> THEN <<>>
  ELSE InsertByScoreDesc(vs[Len(vs)], SortByScoreDesc(SubSeq(vs, 1, Len(vs) - 1)))

TokensOf(vs) == {vs[k].token : k \in 1..Len(vs)}
LastIdx(vs, tok) == MaxOf({k \in 1..Len(vs) : vs[k].token = tok})

\* vs.map(v => Math.exp(v.score)).reduce((s, x) => s + x, 0) || 1
ExpSumOf(vs) ==
  LET sum == SumSeq([k \in 1..Len(vs) |-> ExpMilli(vs[k].score)])
  IN  IF sum = 0 THEN Scale ELSE sum

\* vs.forEach((v, idx) => { probs[v.token] = expScores[idx] / expSum }): a
\* probability is kept as the exact ratio num/den; a later duplicate overwrites
ProbTable(vs) ==
  [tok \in TokensOf(vs) |->
     [num |-> ExpMilli(vs[LastIdx(vs, tok)].score), den |-> ExpSumOf(vs)]]

\* vs.forEach((v, i) => { ranks[v.token] = i }) with zero-based i
RankTable(vs) == [tok \in TokensOf(vs) |-> LastIdx(vs, tok) - 1]

\* ------------------------------------------------------------------------
\* tokenizerEngine.ts: normalizeText
\* ------------------------------------------------------------------------
\* String.prototype.toLowerCase, per character
LowerOf(c) ==
  CASE c = "A" -> "a" [] c = "N" -> "n" [] c = "U+00C1" -> "U+00E1" [] OTHER -> c

toLowerCase(text) == [k \in 1..Len(text) |-> LowerOf(text[k])]

\* canonical decomposition of one character
NFDOf(c) ==
  CASE c = "U+00E1" -> <<"a", "U+0301">>
    [] c = "U+00C1" -> <<"A", "U+0301">>
    [] OTHER -> <<c>>

\* canonical combining class of a character (0: a starter)
CCC(c) ==
  CASE c = "U+0301" -> 230   \* combining acute accent
    [] c = "U+0591" -> 220   \* hebrew accent etnahta
    [] c = "U+05B0" -> 10    \* hebrew point sheva
    [] OTHER -> 0            \* letters, space, U+034F combining grapheme joiner

\* canonical ordering: a mark moves left past the marks of a higher class
\* that precede it; it never passes a starter, nor a mark of its own class
RECURSIVE InsertByCCC(_, _)
InsertByCCC(c, done) ==
  IF done = <<>> \/ CCC(c) = 0 \/ CCC(done[Len(done)]) <= CCC(c)
  THEN done \o <<c>>
  ELSE InsertByCCC(c, SubSeq(done, 1, Len(done) - 1)) \o <<done[Len(done)]>>

RECURSIVE canonicalOrder(_)
canonicalOrder(text) ==
  IF text = <<>> THEN <<>>
  ELSE InsertByCCC(text[Len(text)], canonicalOrder(SubSeq(text, 1, Len(text) - 1)))

\* String.prototype.normalize("NFD"): decompose, then order the marks
normalizeNFD(text) == canonicalOrder(Flatten([k \in 1..Len(text) |-> NFDOf(text[k])]))

\* .replace(/[\u0300-\u036f]/g, ""): the characters of that range
CombiningMarks == {"U+0301", "U+034F"}
removeAccents(text) == SelectSeq(text, LAMBDA c : c \notin CombiningMarks)

\* String.prototype.trim
WhiteSpace == {" "}
RECURSIVE trimStart(_)
trimStart(text) ==
  IF text # <<>> /\ Head(text) \in WhiteSpace THEN trimStart(Tail(text)) ELSE text
RECURSIVE trimEnd(_)
trimEnd(text) ==
  IF text # <<>> /\ text[Len(text)] \in WhiteSpace
  THEN trimEnd(SubSeq(text, 1, Len(text) - 1)) ELSE text
trim(text) == trimEnd(trimStart(text))

\* mutant: the result is not trimmed
normalizeText_noTrim(text) == removeAccents(normalizeNFD(toLowerCase(text)))

normalizeText(text) == trim(removeAccents(normalizeNFD(toLowerCase(text))))

\* ------------------------------------------------------------------------
\* State
\* ------------------------------------------------------------------------
VARIABLES
  VOCAB_DATA,     \* constants.ts: let VOCAB_DATA
  VOCAB_LOADED,   \* constants.ts: let VOCAB_LOADED
  fetchState,     \* "pending" while fetch('/vocab.json') is in flight, then "settled"
  MOCK_VOCAB,     \* constants.ts: export const MOCK_VOCAB
  UNIGRAM_PROBS,  \* constants.ts: export const UNIGRAM_PROBS
  BPE_RANKS,      \* constants.ts: export const BPE_RANKS
  inputText,      \* arguments of the engine call under study
  algo,
  normalize,
  customVocab,    \* [given |-> FALSE] models an omitted (undefined) argument
  result,         \* <<r>>: what the last tokenize(...) returned; <<>> before
  prevResult,     \* <<r>>: what the tokenize(...) call before that returned
  traced,         \* <<t>>: what the last tokenizeWithTrace(...) returned
  decEdges,       \* arguments of a decoder called on an edge list of its own
  decLength,
  greedyPath,     \* <<p>>: what greedyDecode(decEdges, decLength) returned
  viterbiPath,    \* <<p>>: what viterbiDecode(decEdges, decLength) returned
  backtracks,     \* <<n>>: what computeBacktracks(algo, frames of traced) returned
  vocabMode,      \* App.tsx: useState vocabMode
  inFlight,       \* App.tsx: the loadVocab() calls still awaiting, oldest first
  switches,       \* how often the user has changed vocabMode
  showSteps,      \* App.tsx: useState showSteps
  stepFrames,     \* App.tsx: useState frames
  stepIndex,      \* App.tsx: useState stepIndex
  isPlaying       \* App.tsx: useState isPlaying

vars == <<VOCAB_DATA, VOCAB_LOADED, fetchState, MOCK_VOCAB, UNIGRAM_PROBS,
          BPE_RANKS, inputText, algo, normalize, customVocab, result,
          prevResult, traced, decEdges, decLength, greedyPath, viterbiPath,
          backtracks, vocabMode, inFlight, switches, showSteps, stepFrames,
          stepIndex, isPlaying>>

\* types.ts: enum VocabMode
HF_ROBERTA == "HF RoBERTa"
HF_GPT2 == "HF GPT2"
VocabMode == {HF_ROBERTA, HF_GPT2}

Undefined == [given |-> FALSE, items |-> <<>>]
Given(vs) == [given |-> TRUE, items |-> vs]

\* ------------------------------------------------------------------------
\* tokenizerEngine.ts: buildLattice
\* ------------------------------------------------------------------------
MAX_TOKEN_LENGTH == 20
FallbackScore == 10 * Scale
UnknownRank == 999 * Scale
FloorProb == [num |-> 1, den |-> 10000]

\* mutant: the default vocabulary is read from the live VOCAB_DATA
vocabOf_live(cv) ==
  IF cv.given THEN cv.items ELSE IF Len(VOCAB_DATA) > 0 THEN VOCAB_DATA ELSE MOCK_VOCAB

\* mutant: an empty list counts as no vocabulary (customVocab.length > 0)
vocabOf_nonEmpty(cv) == IF cv.given /\ Len(cv.items) > 0 THEN cv.items ELSE MOCK_VOCAB

\* const vocab = customVocab || MOCK_VOCAB (an array, even empty, is truthy)
vocabOf(cv) == IF cv.given THEN cv.items ELSE MOCK_VOCAB

\* the per-call lookup maps unigramProbs and bpeRanks
unigramProbsOf(cv) == IF cv.given THEN ProbTable(cv.items) ELSE UNIGRAM_PROBS
bpeRanksOf(cv) == IF cv.given THEN RankTable(cv.items) ELSE BPE_RANKS

\* vocab.find(v => v.token === tok): <<first such entry>> or <<>>
find(vocab, tok) ==
  LET S == {k \in 1..Len(vocab) : vocab[k].token = tok}
  IN  IF S = {} THEN <<>> ELSE <<vocab[MinOf(S)]>>

\* the match for text[i:j]: the bare entry, else (WordPiece, i > 0) the ## entry
matchOf(vocab, a, text, i, j) ==
  LET substr == substring(text, i, j)
      match  == find(vocab, substr)
  IN  IF match = <<>> /\ a = WORDPIECE /\ i > 0
      THEN find(vocab, <<"#", "#">> \o substr)
      ELSE match

\* -Math.log(prob) in thousandths, prob = num/den
NegLog(prob) == LnMilli(prob.den) - LnMilli(prob.num)

scoreOf(a, tok, substr, unigramProbs, bpeRanks) ==
  IF a = UNIGRAM
  THEN LET prob == IF tok \in DOMAIN unigramProbs /\ unigramProbs[tok].num # 0
                   THEN unigramProbs[tok] ELSE FloorProb
       IN  NegLog(prob)
  ELSE IF a = BPE
  THEN IF tok \in DOMAIN bpeRanks THEN bpeRanks[tok] * Scale ELSE UnknownRank
  ELSE Len(substr) * Scale

\* `edge-${i}-${j}-${suffix}`
edgeId(i, j, suffix) ==
  <<"e", "d", "g", "e", "-">> \o NumStr(i) \o <<"-">> \o NumStr(j) \o <<"-">> \o suffix

\* mutant: the fallback edge is labelled with an unknown-token placeholder
fallbackEdge_unkLabel(text, i) ==
  LET unknownChar == text[i + 1]
  IN  [id    |-> edgeId(i, i + 1, <<"f", "a", "l", "l", "b", "a", "c", "k", "-", unknownChar>>),
       from  |-> i,
       to    |-> i + 1,
       label |-> <<"[", "U", "N", "K", "]">>,
       score |-> FallbackScore]

fallbackEdge(text, i) ==
  LET unknownChar == text[i + 1]
  IN  [id    |-> edgeId(i, i + 1, <<"f", "a", "l", "l", "b", "a", "c", "k", "-", unknownChar>>),
       from  |-> i,
       to    |-> i + 1,
       label |-> <<unknownChar>>,
       score |-> FallbackScore]

\* mutant: the fallback edge is never pushed
edgesAt_noFallback(text, a, vocab, unigramProbs, bpeRanks, i) ==
  LET n    == Len(text)
      maxJ == IF n < i + MAX_TOKEN_LENGTH THEN n ELSE i + MAX_TOKEN_LENGTH
  IN  Flatten([k \in 1..(maxJ - i) |->
        LET j     == i + k
            match == matchOf(vocab, a, text, i, j)
        IN  IF match = <<>> THEN <<>>
            ELSE <<[id    |-> edgeId(i, j, match[1].token),
                    from  |-> i,
                    to    |-> j,
                    label |-> match[1].token,
                    score |-> scoreOf(a, match[1].token, substring(text, i, j),
                                      unigramProbs, bpeRanks)]>>])

\* mutant: the fallback edge is pushed at every position, matched or not
edgesAt_alwaysFallback(text, a, vocab, unigramProbs, bpeRanks, i) ==
  LET n    == Len(text)
      maxJ == IF n < i + MAX_TOKEN_LENGTH THEN n ELSE i + MAX_TOKEN_LENGTH
  IN  Flatten([k \in 1..(maxJ - i) |->
        LET j     == i + k
            match == matchOf(vocab, a, text, i, j)
        IN  IF match = <<>> THEN <<>>
            ELSE <<[id    |-> edgeId(i, j, match[1].token),
                    from  |-> i,
                    to    |-> j,
                    label |-> match[1].token,
                    score |-> scoreOf(a, match[1].token, substring(text, i, j),
                                      unigramProbs, bpeRanks)]>>])
      \o <<fallbackEdge(text, i)>>

\* mutant: the inner loop runs to the end of the text (no MAX_TOKEN_LENGTH)
edgesAt_noCap(text, a, vocab, unigramProbs, bpeRanks, i) ==
  LET n == Len(text)
      matched ==
        Flatten([k \in 1..(n - i) |->
          LET j     == i + k
              match == matchOf(vocab, a, text, i, j)
          IN  IF match = <<>> THEN <<>>
              ELSE <<[id    |-> edgeId(i, j, match[1].token),
                      from  |-> i,
                      to    |-> j,
                      label |-> match[1].token,
                      score |-> scoreOf(a, match[1].token, substring(text, i, j),
                                        unigramProbs, bpeRanks)]>>])
  IN  IF matched = <<>> THEN <<fallbackEdge(text, i)>> ELSE matched

\* one iteration of the outer loop: the edges pushed for start position i
edgesAt(text, a, vocab, unigramProbs, bpeRanks, i) ==
  LET n    == Len(text)
      maxJ == IF n < i + MAX_TOKEN_LENGTH THEN n ELSE i + MAX_TOKEN_LENGTH
      matched ==
        Flatten([k \in 1..(maxJ - i) |->
          LET j     == i + k
              match == matchOf(vocab, a, text, i, j)
          IN  IF match = <<>> THEN <<>>
              ELSE <<[id    |-> edgeId(i, j, match[1].token),
                      from  |-> i,
                      to    |-> j,
                      label |-> match[1].token,
                      score |-> scoreOf(a, match[1].token, substring(text, i, j),
                                        unigramProbs, bpeRanks)]>>])
  IN  IF matched = <<>> THEN <<fallbackEdge(text, i)>> ELSE matched

buildLattice(text, a, cv) ==
  LET vocab        == vocabOf(cv)
      unigramProbs == unigramProbsOf(cv)
      bpeRanks     == bpeRanksOf(cv)
  IN  [edges |-> Flatten([p \in 1..Len(text) |->
                    edgesAt(text, a, vocab, unigramProbs, bpeRanks, p - 1)]),
       nodes |-> [k \in 1..(Len(text) + 1) |-> k - 1]]

\* ------------------------------------------------------------------------
\* tokenizerEngine.ts: greedyDecode
\* ------------------------------------------------------------------------
outgoingOf(edges, node) == SelectSeq(edges, LAMBDA e : e.from = node)

\* candidates.sort by descending span; Array.prototype.sort is stable
RECURSIVE InsertBySpanDesc(_, _)
InsertBySpanDesc(e, sorted) ==
  IF sorted = <<>> THEN <<e>>
  ELSE IF (Head(sorted).to - Head(sorted).from) >= (e.to - e.from)
       THEN <<Head(sorted)>> \o InsertBySpanDesc(e, Tail(sorted))
       ELSE <<e>> \o sorted

\* mutant: the candidates are left in lattice order
SortBySpanDesc_unsorted(es) == es

RECURSIVE SortBySpanDesc(_)
SortBySpanDesc(es) ==
  IF es = <<>> THEN <<>>
  ELSE InsertBySpanDesc(es[Len(es)], SortBySpanDesc(SubSeq(es, 1, Len(es) - 1)))

\* mutant: the walk advances by one character instead of to best.to
RECURSIVE greedyWalk_stepOne(_, _, _, _)
greedyWalk_stepOne(edges, length, current, path) ==
  IF ~(current < length) THEN path
  ELSE LET candidates == outgoingOf(edges, current)
       IN  IF candidates = <<>> THEN path
           ELSE LET best == SortBySpanDesc(candidates)[1]
                IN  greedyWalk_stepOne(edges, length, current + 1, Append(path, best.id))

\* mutant: a walk that meets a node without outgoing edge is thrown away
RECURSIVE greedyWalk_dropAtDeadEnd(_, _, _, _)
greedyWalk_dropAtDeadEnd(edges, length, current, path) ==
  IF ~(current < length) THEN path
  ELSE LET candidates == outgoingOf(edges, current)
       IN  IF candidates = <<>> THEN <<>>
           ELSE LET best == SortBySpanDesc(candidates)[1]
                IN  greedyWalk_dropAtDeadEnd(edges, length, best.to, Append(path, best.id))

RECURSIVE greedyWalk(_, _, _, _)
greedyWalk(edges, length, current, path) ==
  IF ~(current < length) THEN path
  ELSE LET candidates == outgoingOf(edges, current)
       IN  IF candidates = <<>> THEN path
           ELSE LET best == SortBySpanDesc(candidates)[1]
                IN  greedyWalk(edges, length, best.to, Append(path, best.id))

greedyDecode(edges, length) == greedyWalk(edges, length, 0, <<>>)

\* ------------------------------------------------------------------------
\* tokenizerEngine.ts: viterbiDecode
\* ------------------------------------------------------------------------
Infinity == 2147483647
NoEdge == <<>>      \* edgeId: null

initMinCost(length) ==
  [k \in 0..length |->
     IF k = 0 THEN [cost |-> 0, edgeId |-> NoEdge, prevNode |-> -1]
     ELSE [cost |-> Infinity, edgeId |-> NoEdge, prevNode |-> -1]]

\* mutant: a node keeps the first cost it was reached with
RECURSIVE relaxAll_firstWins(_, _, _)
relaxAll_firstWins(minCost, i, outgoing) ==
  IF outgoing = <<>> THEN minCost
  ELSE LET edge    == Head(outgoing)
           newCost == minCost[i].cost + edge.score
       IN  relaxAll_firstWins(IF minCost[edge.to].cost = Infinity
                              THEN [minCost EXCEPT ![edge.to] =
                                      [cost |-> newCost, edgeId |-> edge.id, prevNode |-> i]]
                              ELSE minCost,
                              i, Tail(outgoing))

\* for (const edge of outgoing) { relax }
RECURSIVE relaxAll(_, _, _)
relaxAll(minCost, i, outgoing) ==
  IF outgoing = <<>> THEN minCost
  ELSE LET edge    == Head(outgoing)
           newCost == minCost[i].cost + edge.score
       IN  relaxAll(IF newCost < minCost[edge.to].cost
                    THEN [minCost EXCEPT ![edge.to] =
                            [cost |-> newCost, edgeId |-> edge.id, prevNode |-> i]]
                    ELSE minCost,
                    i, Tail(outgoing))

RECURSIVE viterbiForward(_, _, _, _)
viterbiForward(edges, length, i, minCost) ==
  IF ~(i < length) THEN minCost
  ELSE IF minCost[i].cost = Infinity
       THEN viterbiForward(edges, length, i + 1, minCost)
       ELSE viterbiForward(edges, length, i + 1,
                           relaxAll(minCost, i, outgoingOf(edges, i)))

RECURSIVE backtrack(_, _, _)
backtrack(minCost, curr, path) ==
  IF ~(curr > 0) THEN path
  ELSE LET node == minCost[curr]
       IN  IF node.edgeId = NoEdge THEN path
           ELSE backtrack(minCost, node.prevNode, <<node.edgeId>> \o path)

viterbiDecode(edges, length) ==
  backtrack(viterbiForward(edges, length, 0, initMinCost(length)), length, <<>>)

\* ------------------------------------------------------------------------
\* tokenizerEngine.ts: tokenize
\* ------------------------------------------------------------------------
processedTextOf(text, norm) == IF norm THEN normalizeText(text) ELSE text

\* edges.find(e => e.id === id)?.label || ''
labelOf(edges, id) ==
  LET S == {k \in 1..Len(edges) : edges[k].id = id}
  IN  IF S = {} THEN <<>> ELSE edges[MinOf(S)].label

tokensOf(edges, path) == [k \in 1..Len(path) |-> labelOf(edges, path[k])]

\* the TokenizationResult object literal of tokenize and tokenizeWithTrace
resultOf(processedText, lattice, selectedPath) ==
  [graph        |-> [nodes |-> lattice.nodes, edges |-> lattice.edges,
                     text |-> processedText],
   selectedPath |-> selectedPath,
   tokens       |-> tokensOf(lattice.edges, selectedPath)]

\* the decoding step of tokenize: Viterbi for Unigram, greedy otherwise
decode(a, edges, length) ==
  IF a = UNIGRAM THEN viterbiDecode(edges, length) ELSE greedyDecode(edges, length)

\* tokenize from the lattice on: decode, then build the result
tokenizeLattice(processedText, a, lattice) ==
  resultOf(processedText, lattice, decode(a, lattice.edges, Len(processedText)))

\* tokenize from the processed text on
tokenizeProcessed(processedText, a, cv) ==
  tokenizeLattice(processedText, a, buildLattice(processedText, a, cv))

tokenize(text, a, norm, cv) == tokenizeProcessed(processedTextOf(text, norm), a, cv)

\* ------------------------------------------------------------------------
\* tokenizerEngine.ts: tokenizeWithTrace
\* ------------------------------------------------------------------------
\* A StepFrame.  The optional fields chosen and viterbiSnapshot are <<>> when
\* the frame has none and <<value>> otherwise; the free-text description is
\* display-only and is not modelled.
frameId(kind, suffix) == <<"f", "r", "a", "m", "e", "-">> \o kind \o <<"-">> \o suffix
Consider == <<"c", "o", "n", "s", "i", "d", "e", "r">>
Update == <<"u", "p", "d", "a", "t", "e">>
Backtrack == <<"b", "a", "c", "k", "t", "r", "a", "c", "k">>
Choose == <<"c", "h", "o", "o", "s", "e">>

idsOf(es) == [k \in 1..Len(es) |-> es[k].id]

\* minCost.map((m, idx) => ({ node: idx, cost, edgeId, prev }))
\* mutant: the snapshot lists only the nodes reached so far
snapshotOf_reachedOnly(minCost, length) ==
  SelectSeq([k \in 1..(length + 1) |->
               [node |-> k - 1, cost |-> minCost[k - 1].cost,
                edgeId |-> minCost[k - 1].edgeId, prev |-> minCost[k - 1].prevNode]],
            LAMBDA m : m.cost # Infinity)

snapshotOf(minCost, length) ==
  [k \in 1..(length + 1) |->
     [node |-> k - 1, cost |-> minCost[k - 1].cost,
      edgeId |-> minCost[k - 1].edgeId, prev |-> minCost[k - 1].prevNode]]

\* mutant: the update frame's snapshot is taken before the assignment
RECURSIVE traceRelaxAll_staleSnapshot(_, _, _, _)
traceRelaxAll_staleSnapshot(st, i, outgoing, length) ==
  IF outgoing = <<>> THEN st
  ELSE LET edge    == Head(outgoing)
           newCost == st.minCost[i].cost + edge.score
       IN  IF newCost < st.minCost[edge.to].cost
           THEN LET mc == [st.minCost EXCEPT ![edge.to] =
                             [cost |-> newCost, edgeId |-> edge.id, prevNode |-> i]]
                IN  traceRelaxAll_staleSnapshot(
                      [minCost |-> mc,
                       frames  |-> Append(st.frames,
                         [id |-> frameId(Update, NumStr(i) \o <<"-">> \o NumStr(edge.to)),
                          candidates |-> <<edge.id>>,
                          chosen |-> <<edge.id>>,
                          partialPath |-> <<>>,
                          viterbiSnapshot |-> <<snapshotOf(st.minCost, length)>>])],
                      i, Tail(outgoing), length)
           ELSE traceRelaxAll_staleSnapshot(st, i, Tail(outgoing), length)

\* Unigram: inner loop over the outgoing edges of node i, one update frame per
\* improving relaxation; st = [minCost, frames]
RECURSIVE traceRelaxAll(_, _, _, _)
traceRelaxAll(st, i, outgoing, length) ==
  IF outgoing = <<>> THEN st
  ELSE LET edge    == Head(outgoing)
           newCost == st.minCost[i].cost + edge.score
       IN  IF newCost < st.minCost[edge.to].cost
           THEN LET mc == [st.minCost EXCEPT ![edge.to] =
                             [cost |-> newCost, edgeId |-> edge.id, prevNode |-> i]]
                IN  traceRelaxAll(
                      [minCost |-> mc,
                       frames  |-> Append(st.frames,
                         [id |-> frameId(Update, NumStr(i) \o <<"-">> \o NumStr(edge.to)),
                          candidates |-> <<edge.id>>,
                          chosen |-> <<edge.id>>,
                          partialPath |-> <<>>,
                          viterbiSnapshot |-> <<snapshotOf(mc, length)>>])],
                      i, Tail(outgoing), length)
           ELSE traceRelaxAll(st, i, Tail(outgoing), length)

\* Unigram: outer loop, one consideration frame per reachable node
RECURSIVE traceForward(_, _, _, _)
traceForward(edges, length, i, st) ==
  IF ~(i < length) THEN st
  ELSE IF st.minCost[i].cost = Infinity
       THEN traceForward(edges, length, i + 1, st)
       ELSE LET outgoing == outgoingOf(edges, i)
                considered ==
                  [minCost |-> st.minCost,
                   frames  |-> Append(st.frames,
                     [id |-> frameId(Consider, NumStr(i)),
                      candidates |-> idsOf(outgoing),
                      chosen |-> <<>>,
                      partialPath |-> <<>>,
                      viterbiSnapshot |-> <<snapshotOf(st.minCost, length)>>])]
            IN  traceForward(edges, length, i + 1,
                             traceRelaxAll(considered, i, outgoing, length))

\* mutant: the backtrack frame carries the path as it was before the unshift
RECURSIVE traceBacktrack_stalePath(_, _, _, _)
traceBacktrack_stalePath(minCost, curr, st, length) ==
  IF ~(curr > 0) THEN st
  ELSE LET node == minCost[curr]
       IN  IF node.edgeId = NoEdge THEN st
           ELSE LET path == <<node.edgeId>> \o st.path
                    next == node.prevNode
                IN  traceBacktrack_stalePath(minCost, next,
                      [path   |-> path,
                       frames |-> Append(st.frames,
                         [id |-> frameId(Backtrack, NumStr(next)),
                          candidates |-> <<>>,
                          chosen |-> <<path[1]>>,
                          partialPath |-> st.path,
                          viterbiSnapshot |-> <<snapshotOf(minCost, length)>>])],
                      length)

\* Unigram: backtrack loop, one frame per edge put in front of the path;
\* st = [path, frames]
RECURSIVE traceBacktrack(_, _, _, _)
traceBacktrack(minCost, curr, st, length) ==
  IF ~(curr > 0) THEN st
  ELSE LET node == minCost[curr]
       IN  IF node.edgeId = NoEdge THEN st
           ELSE LET path == <<node.edgeId>> \o st.path
                    next == node.prevNode
                IN  traceBacktrack(minCost, next,
                      [path   |-> path,
                       frames |-> Append(st.frames,
                         [id |-> frameId(Backtrack, NumStr(next)),
                          candidates |-> <<>>,
                          chosen |-> <<path[1]>>,
                          partialPath |-> path,
                          viterbiSnapshot |-> <<snapshotOf(minCost, length)>>])],
                      length)

\* mutant: the traced greedy loop takes the first candidate without sorting
RECURSIVE traceGreedy_firstCandidate(_, _, _, _)
traceGreedy_firstCandidate(edges, length, current, st) ==
  IF ~(current < length) THEN st
  ELSE LET candidates == outgoingOf(edges, current)
           considered ==
             Append(st.frames,
               [id |-> frameId(Consider, NumStr(current)),
                candidates |-> idsOf(candidates),
                chosen |-> <<>>,
                partialPath |-> st.path,
                viterbiSnapshot |-> <<>>])
       IN  IF candidates = <<>> THEN [path |-> st.path, frames |-> considered]
           ELSE LET best == candidates[1]
                    path == Append(st.path, best.id)
                IN  traceGreedy_firstCandidate(edges, length, best.to,
                      [path   |-> path,
                       frames |-> Append(considered,
                         [id |-> frameId(Choose, best.id),
                          candidates |-> idsOf(candidates),
                          chosen |-> <<best.id>>,
                          partialPath |-> path,
                          viterbiSnapshot |-> <<>>])])

\* mutant: the consideration frame does not carry the path chosen so far
RECURSIVE traceGreedy_emptyPartial(_, _, _, _)
traceGreedy_emptyPartial(edges, length, current, st) ==
  IF ~(current < length) THEN st
  ELSE LET candidates == outgoingOf(edges, current)
           considered ==
             Append(st.frames,
               [id |-> frameId(Consider, NumStr(current)),
                candidates |-> idsOf(candidates),
                chosen |-> <<>>,
                partialPath |-> <<>>,
                viterbiSnapshot |-> <<>>])
       IN  IF candidates = <<>> THEN [path |-> st.path, frames |-> considered]
           ELSE LET sorted == SortBySpanDesc(candidates)
                    best   == sorted[1]
                    path   == Append(st.path, best.id)
                IN  traceGreedy_emptyPartial(edges, length, best.to,
                      [path   |-> path,
                       frames |-> Append(considered,
                         [id |-> frameId(Choose, best.id),
                          candidates |-> idsOf(sorted),
                          chosen |-> <<best.id>>,
                          partialPath |-> path,
                          viterbiSnapshot |-> <<>>])])

\* BPE / WordPiece: the greedy loop with a consideration and a choice frame per
\* step; st = [path, frames]
RECURSIVE traceGreedy(_, _, _, _)
traceGreedy(edges, length, current, st) ==
  IF ~(current < length) THEN st
  ELSE LET candidates == outgoingOf(edges, current)
           considered ==
             Append(st.frames,
               [id |-> frameId(Consider, NumStr(current)),
                candidates |-> idsOf(candidates),
                chosen |-> <<>>,
                partialPath |-> st.path,
                viterbiSnapshot |-> <<>>])
       IN  IF candidates = <<>> THEN [path |-> st.path, frames |-> considered]
           ELSE LET sorted == SortBySpanDesc(candidates)
                    best   == sorted[1]
                    path   == Append(st.path, best.id)
                IN  traceGreedy(edges, length, best.to,
                      [path   |-> path,
                       frames |-> Append(considered,
                         [id |-> frameId(Choose, best.id),
                          candidates |-> idsOf(sorted),
                          chosen |-> <<best.id>>,
                          partialPath |-> path,
                          viterbiSnapshot |-> <<>>])])

\* the Unigram branch after the forward pass: backtrack from the end node
traceViterbi(fwd, length) ==
  traceBacktrack(fwd.minCost, length, [path |-> <<>>, frames |-> fwd.frames], length)

\* the decoding step of tokenizeWithTrace: the path and the frames
traceDecode(a, edges, length) ==
  IF a = UNIGRAM
  THEN traceViterbi(traceForward(edges, length, 0,
                                 [minCost |-> initMinCost(length), frames |-> <<>>]),
                    length)
  ELSE traceGreedy(edges, length, 0, [path |-> <<>>, frames |-> <<>>])

\* the object tokenizeWithTrace returns
tracedOf(processedText, lattice, decoded) ==
  [result |-> resultOf(processedText, lattice, decoded.path),
   frames |-> decoded.frames]

\* tokenizeWithTrace from the lattice on
traceLattice(processedText, a, lattice) ==
  tracedOf(processedText, lattice, traceDecode(a, lattice.edges, Len(processedText)))

\* tokenizeWithTrace from the processed text on
traceProcessed(processedText, a, cv) ==
  traceLattice(processedText, a, buildLattice(processedText, a, cv))

tokenizeWithTrace(text, a, norm, cv) == traceProcessed(processedTextOf(text, norm), a, cv)

\* ------------------------------------------------------------------------
\* Inputs
\* ------------------------------------------------------------------------
TextChars == {"a", "n", " "}
Texts == SeqsUpTo(TextChars, MaxTextLen)

VocabItems == {VI(<<"a">>, 1000), VI(<<"a", "a">>, 0), VI(<<"#", "#", "n">>, 1000)}
Vocabs == SeqsUpTo(VocabItems, MaxVocab)
VocabArgs == {Undefined} \cup {Given(v) : v \in Vocabs}

\* what /vocab.json may hold in its vocab field
ServedVocabs == {<<VI(<<"n">>, 2000), VI(<<"a", "n", "a">>, 1000)>>}

\* ------------------------------------------------------------------------
\* Initial state: constants.ts has been evaluated, the fetch is in flight, and
\* the arguments of the calls to come are drawn from the given sets
\* ------------------------------------------------------------------------
InitWith(texts, algos, norms, vocabArgs) ==
  /\ VOCAB_DATA = <<>>
  /\ VOCAB_LOADED = FALSE
  /\ fetchState = "pending"
  /\ MOCK_VOCAB = SortByScoreDesc(FALLBACK_VOCAB)
  /\ UNIGRAM_PROBS = ProbTable(FALLBACK_VOCAB)
  /\ BPE_RANKS = RankTable(SortByScoreDesc(FALLBACK_VOCAB))
  /\ inputText \in texts
  /\ algo \in algos
  /\ normalize \in norms
  /\ customVocab \in vocabArgs
  /\ result = <<>>
  /\ prevResult = <<>>
  /\ traced = <<>>
  /\ decEdges = <<>>
  /\ decLength = 0
  /\ greedyPath = <<>>
  /\ viterbiPath = <<>>
  /\ backtracks = <<>>
  /\ vocabMode = HF_ROBERTA
  /\ inFlight = <<>>
  /\ switches = 0
  /\ showSteps = FALSE
  /\ stepFrames = <<>>
  /\ stepIndex = 0
  /\ isPlaying = FALSE

Init == InitWith(Texts, AlgorithmType, BOOLEAN, VocabArgs)

globals == <<VOCAB_DATA, VOCAB_LOADED, fetchState, MOCK_VOCAB, UNIGRAM_PROBS, BPE_RANKS>>
args == <<inputText, algo, normalize, customVocab>>
dec == <<decEdges, decLength, greedyPath, viterbiPath>>
app == <<vocabMode, inFlight, switches, showSteps, stepFrames, stepIndex, isPlaying>>

\* ------------------------------------------------------------------------
\* Actions
\* ------------------------------------------------------------------------
\* loadVocabAsync: the response is ok and data.vocab is an array
LoadVocabOk ==
  /\ fetchState = "pending"
  /\ \E data \in ServedVocabs :
       /\ VOCAB_DATA' = data
       /\ VOCAB_LOADED' = TRUE
  /\ fetchState' = "settled"
  /\ UNCHANGED <<MOCK_VOCAB, UNIGRAM_PROBS, BPE_RANKS, args, result, prevResult, traced, dec, backtracks, app>>

\* loadVocabAsync: the response is ok but data.vocab is missing or no array:
\* nothing is assigned
LoadVocabMalformed ==
  /\ fetchState = "pending"
  /\ fetchState' = "settled"
  /\ UNCHANGED <<VOCAB_DATA, VOCAB_LOADED, MOCK_VOCAB, UNIGRAM_PROBS, BPE_RANKS,
                 args, result, prevResult, traced, dec, backtracks, app>>

\* loadVocabAsync: fetch rejects, the status is not ok or the body is not JSON.
\* FALLBACK_VOCAB is the array MOCK_VOCAB names, sorted in place at load time.
LoadVocabFail ==
  /\ fetchState = "pending"
  /\ VOCAB_DATA' = MOCK_VOCAB
  /\ VOCAB_LOADED' = TRUE
  /\ fetchState' = "settled"
  /\ UNCHANGED <<MOCK_VOCAB, UNIGRAM_PROBS, BPE_RANKS, args, result, prevResult, traced, dec, backtracks, app>>

\* a call tokenize(inputText, algo, normalize, customVocab)
Tokenize ==
  /\ result' = <<tokenize(inputText, algo, normalize, customVocab)>>
  /\ prevResult' = result
  /\ UNCHANGED <<globals, args, traced, dec, backtracks, app>>

\* a call tokenizeWithTrace(inputText, algo, normalize, customVocab)
TokenizeWithTrace ==
  /\ traced' = <<tokenizeWithTrace(inputText, algo, normalize, customVocab)>>
  /\ UNCHANGED <<globals, args, result, prevResult, dec, backtracks, app>>

Next ==
  \/ LoadVocabOk
  \/ LoadVocabMalformed
  \/ LoadVocabFail
  \/ Tokenize
  \/ TokenizeWithTrace

Spec == Init /\ [][Next]_vars

\* ------------------------------------------------------------------------
\* Vocabulary for stating the properties
\* ------------------------------------------------------------------------
Last(s) == s[Len(s)]
span(e) == e.to - e.from
IsFallback(e) == e.score = FallbackScore /\ e.to = e.from + 1
                   /\ e.id = edgeId(e.from, e.to, <<"f", "a", "l", "l", "b", "a", "c", "k", "-">> \o e.label)

HasEdge(edges, id) == \E k \in 1..Len(edges) : edges[k].id = id
EdgeOfId(edges, id) == edges[MinOf({k \in 1..Len(edges) : edges[k].id = id})]

\* the edges a path of ids names, in order
PathEdges(r) == [k \in 1..Len(r.selectedPath) |-> EdgeOfId(r.graph.edges, r.selectedPath[k])]

\* a connected walk from node 0 to node length
IsFullWalk(es, length) ==
  /\ es # <<>>
  /\ es[1].from = 0
  /\ \A k \in 1..(Len(es) - 1) : es[k + 1].from = es[k].to
  /\ Last(es).to = length

\* every path of the lattice from node to the last node, as sequences of edges
RECURSIVE PathsFrom(_, _, _)
PathsFrom(edges, node, length) ==
  IF node = length THEN {<<>>}
  ELSE UNION {{<<edges[k]>> \o p : p \in PathsFrom(edges, edges[k].to, length)} :
                k \in {k \in 1..Len(edges) : edges[k].from = node}}

PathCost(es) == SumSeq([k \in 1..Len(es) |-> es[k].score])

\* ------------------------------------------------------------------------
\* C1: for non-empty processed text, whatever the algorithm and the
\* vocabulary, the selectedPath tokenize returns names edges of the lattice
\* that form one connected walk from node 0 to node len(text): the first edge
\* starts at 0, each next edge starts where the previous one ends, the last
\* edge ends at len(text).
\* ------------------------------------------------------------------------
C1_SelectedPathCoversText ==
  result # <<>> /\ Len(result[1].graph.text) > 0 =>
    /\ \A k \in 1..Len(result[1].selectedPath) :
         HasEdge(result[1].graph.edges, result[1].selectedPath[k])
    /\ IsFullWalk(PathEdges(result[1]), Len(result[1].graph.text))

\* a two-step walk over an empty vocabulary has been returned
C1_Witness ==
  /\ result # <<>>
  /\ customVocab = Given(<<>>)
  /\ Len(result[1].graph.text) = 2
  /\ Len(result[1].selectedPath) = 2

\* ------------------------------------------------------------------------
\* C2: for Unigram, the summed edge score of the selectedPath is less than or
\* equal to the summed edge score of every path of the lattice from node 0 to
\* node len(text).
\* ------------------------------------------------------------------------
C2_UnigramPathIsCheapest ==
  result # <<>> /\ algo = UNIGRAM =>
    \A p \in PathsFrom(result[1].graph.edges, 0, Len(result[1].graph.text)) :
      PathCost(PathEdges(result[1])) <= PathCost(p)

\* Unigram preferred two short edges to one edge spanning the whole text
C2_Witness ==
  /\ result # <<>>
  /\ algo = UNIGRAM
  /\ Len(result[1].selectedPath) = 2
  /\ \E k \in 1..Len(result[1].graph.edges) :
       /\ result[1].graph.edges[k].from = 0
       /\ result[1].graph.edges[k].to = Len(result[1].graph.text)
       /\ PathCost(PathEdges(result[1])) < result[1].graph.edges[k].score

\* ------------------------------------------------------------------------
\* C3: for BPE and WordPiece, the walk starts at node 0 and every chosen edge
\* leaves the node the walk is at and is strictly longer than every other
\* edge leaving that node, so the choice is fixed by the edges leaving the
\* current node alone.
\* ------------------------------------------------------------------------
C3_GreedyPicksLongestOutgoing ==
  result # <<>> /\ algo \in {BPE, WORDPIECE} =>
    LET es == PathEdges(result[1])
        current(k) == IF k = 1 THEN 0 ELSE es[k - 1].to
    IN  \A k \in 1..Len(es) :
          /\ es[k].from = current(k)
          /\ \A j \in 1..Len(result[1].graph.edges) :
               LET e == result[1].graph.edges[j]
               IN  e.from = current(k) /\ e # es[k] => span(e) < span(es[k])

\* a greedy walk chose the longer of two edges leaving node 0
C3_Witness ==
  /\ result # <<>>
  /\ algo \in {BPE, WORDPIECE}
  /\ result[1].selectedPath # <<>>
  /\ span(PathEdges(result[1])[1]) = 2
  /\ \E j \in 1..Len(result[1].graph.edges) :
       result[1].graph.edges[j].from = 0 /\ span(result[1].graph.edges[j]) = 1

\* ------------------------------------------------------------------------
\* C4: tokenizeWithTrace(...).result has the same lattice (nodes, edges,
\* text), the same selectedPath and the same tokens as tokenize(...) called
\* with the same arguments.
\* ------------------------------------------------------------------------
C4_TraceResultEqualsTokenize ==
  result # <<>> /\ traced # <<>> =>
    /\ traced[1].result.graph.nodes = result[1].graph.nodes
    /\ traced[1].result.graph.edges = result[1].graph.edges
    /\ traced[1].result.graph.text = result[1].graph.text
    /\ traced[1].result.selectedPath = result[1].selectedPath
    /\ traced[1].result.tokens = result[1].tokens

\* both calls were made on a text where the decoder had a choice at node 0
C4_Witness ==
  /\ result # <<>>
  /\ traced # <<>>
  /\ Len(traced[1].frames) >= 2
  /\ Len(outgoingOf(result[1].graph.edges, 0)) >= 2

\* ------------------------------------------------------------------------
\* C5: for non-empty processed text the partialPath of the last frame of
\* tokenizeWithTrace equals result.selectedPath; for empty text no frame is
\* emitted and the path is empty.
\* ------------------------------------------------------------------------
C5_LastFrameCarriesFinalPath ==
  traced # <<>> =>
    IF traced[1].result.graph.text = <<>>
    THEN traced[1].frames = <<>> /\ traced[1].result.selectedPath = <<>>
    ELSE /\ traced[1].frames # <<>>
         /\ Last(traced[1].frames).partialPath = traced[1].result.selectedPath

\* a Unigram trace ended with a backtrack frame carrying a two-edge path
C5_Witness ==
  /\ traced # <<>>
  /\ algo = UNIGRAM
  /\ Len(traced[1].result.selectedPath) = 2
  /\ Last(traced[1].frames).chosen = <<traced[1].result.selectedPath[1]>>

EveryPositionHasEdge(g) ==
  \A i \in 0..(Len(g.text) - 1) : \E k \in 1..Len(g.edges) : g.edges[k].from = i

C7_EveryPositionHasOutgoingEdge ==
  /\ result # <<>> => EveryPositionHasEdge(result[1].graph)
  /\ traced # <<>> => EveryPositionHasEdge(traced[1].result.graph)

\* a lattice in which a position is served by its fallback edge only
C7_Witness ==
  /\ result # <<>>
  /\ Len(result[1].graph.text) = 2
  /\ \E k \in 1..Len(result[1].graph.edges) :
       /\ IsFallback(result[1].graph.edges[k])
       /\ result[1].graph.edges[k].from = 1
  /\ \E k \in 1..Len(result[1].graph.edges) : ~IsFallback(result[1].graph.edges[k])

\* ------------------------------------------------------------------------
\* C8: when the text is empty, or is whitespace only and normalize is set,
\* tokenize returns the lattice with the single node 0 and no edges, an
\* empty selectedPath and an empty tokens list, for every algorithm and
\* vocabulary.
\* ------------------------------------------------------------------------
IsBlank(text) == \A k \in 1..Len(text) : text[k] \in WhiteSpace

C8_EmptyTextGivesEmptyResult ==
  result # <<>> /\ (inputText = <<>> \/ (normalize /\ IsBlank(inputText))) =>
    /\ result[1].graph.nodes = <<0>>
    /\ result[1].graph.edges = <<>>
    /\ result[1].graph.text = <<>>
    /\ result[1].selectedPath = <<>>
    /\ result[1].tokens = <<>>

\* a text of blanks was tokenized with normalization on
C8_Witness ==
  /\ result # <<>>
  /\ normalize
  /\ inputText # <<>>
  /\ IsBlank(inputText)

\* ------------------------------------------------------------------------
\* C9: with the empty list as vocabulary the lattice has exactly len(text)
\* edges, the edge (i, i+1, text[i]) for each position i in order, the
\* selectedPath is all of them in order and tokens is the list of single
\* characters, for every algorithm.
\* ------------------------------------------------------------------------
C9_EmptyVocabIsCharLevel ==
  result # <<>> /\ customVocab = Given(<<>>) =>
    LET text  == result[1].graph.text
        edges == result[1].graph.edges
    IN  /\ Len(edges) = Len(text)
        /\ \A k \in 1..Len(edges) :
             /\ edges[k].from = k - 1
             /\ edges[k].to = k
             /\ edges[k].label = <<text[k]>>
             /\ IsFallback(edges[k])
        /\ result[1].selectedPath = idsOf(edges)
        /\ result[1].tokens = [k \in 1..Len(text) |-> <<text[k]>>]

\* a two-character text that the default vocabulary would match as one token
C9_Witness ==
  /\ result # <<>>
  /\ customVocab = Given(<<>>)
  /\ result[1].graph.text = <<"a", "n">>
  /\ result[1].tokens = << <<"a">>, <<"n">> >>

\* ------------------------------------------------------------------------
\* C10 as claimed: with the vocabulary argument omitted every position falls
\* back to a single-character edge and the tokens are the single characters.
\* ------------------------------------------------------------------------
C10_OmittedVocabIsCharLevel ==
  result # <<>> /\ ~customVocab.given =>
    /\ \A k \in 1..Len(result[1].graph.edges) : IsFallback(result[1].graph.edges[k])
    /\ result[1].tokens = [k \in 1..Len(result[1].graph.text) |-> <<result[1].graph.text[k]>>]

\* the end positions j at which a MOCK_VOCAB entry matches text[i:j]
MockMatchEnds(text, a, i) ==
  {j \in (i + 1)..Len(text) :
     /\ j <= i + MAX_TOKEN_LENGTH
     /\ \E tok \in TokensOf(MOCK_VOCAB) :
          \/ tok = substring(text, i, j)
          \/ a = WORDPIECE /\ i > 0 /\ tok = <<"#", "#">> \o substring(text, i, j)}

\* ------------------------------------------------------------------------
\* C10 as amended: with the vocabulary argument omitted the default
\* vocabulary MOCK_VOCAB is used: position i has one edge, labelled with a
\* MOCK_VOCAB token, for each end j at which a MOCK_VOCAB entry matches
\* text[i:j], and the single-character fallback edge exactly when there is
\* no such match.
\* ------------------------------------------------------------------------
C10_OmittedVocabUsesMockVocab ==
  result # <<>> /\ ~customVocab.given =>
    LET text == result[1].graph.text
        out(i) == outgoingOf(result[1].graph.edges, i)
    IN  \A i \in 0..(Len(text) - 1) :
          IF MockMatchEnds(text, algo, i) = {}
          THEN Len(out(i)) = 1 /\ IsFallback(out(i)[1]) /\ out(i)[1].label = <<text[i + 1]>>
          ELSE /\ {out(i)[k].to : k \in 1..Len(out(i))} = MockMatchEnds(text, algo, i)
               /\ Len(out(i)) = Cardinality(MockMatchEnds(text, algo, i))
               /\ \A k \in 1..Len(out(i)) :
                    /\ ~IsFallback(out(i)[k])
                    /\ out(i)[k].label \in TokensOf(MOCK_VOCAB)

\* with no vocabulary passed, "an" came back as the single token "an"
C10_Witness ==
  /\ result # <<>>
  /\ ~customVocab.given
  /\ result[1].graph.text = <<"a", "n">>
  /\ result[1].tokens = << <<"a", "n">> >>

\* ------------------------------------------------------------------------
\* WordPiece calls over vocabularies that hold a token both bare and with the
\* continuation marker
\* ------------------------------------------------------------------------
TextsWP == SeqsUpTo({"a", "n"}, MaxTextLen)
VocabItemsWP == {VI(<<"a">>, 1000), VI(<<"n">>, 1000), VI(<<"#", "#", "n">>, 0)}
VocabArgsWP == {Given(v) : v \in SeqsUpTo(VocabItemsWP, MaxVocab)}

InitWP == InitWith(TextsWP, {WORDPIECE}, {FALSE}, VocabArgsWP)
SpecWP == InitWP /\ [][Next]_vars

\* ------------------------------------------------------------------------
\* C11 as claimed: in WordPiece mode, for a substring starting at i > 0, when
\* the vocabulary holds both the bare substring and "##" + substring, the edge
\* built for that span carries the "##" entry.
\* ------------------------------------------------------------------------
C11_ContinuationEntryPreferred ==
  result # <<>> /\ algo = WORDPIECE =>
    LET text  == result[1].graph.text
        edges == result[1].graph.edges
        vocab == vocabOf(customVocab)
    IN  \A k \in 1..Len(edges) :
          LET e      == edges[k]
              substr == substring(text, e.from, e.to)
          IN  /\ e.from > 0
              /\ find(vocab, substr) # <<>>
              /\ find(vocab, <<"#", "#">> \o substr) # <<>>
              => e.label = <<"#", "#">> \o substr

\* ------------------------------------------------------------------------
\* C12 as claimed: in BPE mode the score of every vocabulary-matched edge is
\* the rank of its token, a zero-based position of the token in the vocabulary
\* sorted by descending raw score, whatever the order the vocabulary was
\* passed in.
\* ------------------------------------------------------------------------
C12_BpeScoreIsDescendingScoreRank ==
  result # <<>> /\ algo = BPE =>
    LET edges  == result[1].graph.edges
        sorted == SortByScoreDesc(vocabOf(customVocab))
    IN  \A k \in 1..Len(edges) :
          ~IsFallback(edges[k]) =>
            \E p \in 1..Len(sorted) :
              /\ sorted[p].token = edges[k].label
              /\ edges[k].score = (p - 1) * Scale

\* ------------------------------------------------------------------------
\* Calls with normalize = true over texts that mix letters, blanks, accents
\* inside and outside the stripped range, and the grapheme joiner
\* ------------------------------------------------------------------------
NormChars == {"A", " ", "U+00C1", "U+0591", "U+034F", "U+05B0"}
TextsNorm == SeqsUpTo(NormChars, MaxTextLen + 1)

InitNorm == InitWith(TextsNorm, {BPE}, {TRUE}, {Given(<<>>)})
SpecNorm == InitNorm /\ [][Next]_vars

\* ------------------------------------------------------------------------
\* C13 as claimed: normalizeText is idempotent: normalizing the text that
\* normalizeText returned gives that text back.
\* ------------------------------------------------------------------------
C13_NormalizeIsIdempotent ==
  result # <<>> /\ normalize =>
    /\ result[1].graph.text = normalizeText(inputText)
    /\ normalizeText(result[1].graph.text) = result[1].graph.text

\* ------------------------------------------------------------------------
\* The decoders called on edge lists of their own: any set of forward edges
\* over the nodes 0..length, in lattice order (by from, then by to)
\* ------------------------------------------------------------------------
DecPairs(length) == {pr \in (0..length) \X (0..length) : pr[1] < pr[2]}

DecEdge(pr) ==
  [id    |-> edgeId(pr[1], pr[2], <<"t">>),
   from  |-> pr[1],
   to    |-> pr[2],
   label |-> <<"t">>,
   score |-> (pr[2] - pr[1]) * Scale]

RECURSIVE InLatticeOrder(_)
InLatticeOrder(S) ==
  IF S = {} THEN <<>>
  ELSE LET first == CHOOSE pr \in S : \A q \in S :
                      pr[1] < q[1] \/ (pr[1] = q[1] /\ pr[2] <= q[2])
       IN  <<DecEdge(first)>> \o InLatticeOrder(S \ {first})

InitDec ==
  /\ VOCAB_DATA = <<>>
  /\ VOCAB_LOADED = FALSE
  /\ fetchState = "pending"
  /\ MOCK_VOCAB = SortByScoreDesc(FALLBACK_VOCAB)
  /\ UNIGRAM_PROBS = ProbTable(FALLBACK_VOCAB)
  /\ BPE_RANKS = RankTable(SortByScoreDesc(FALLBACK_VOCAB))
  /\ inputText = <<>>
  /\ algo = BPE
  /\ normalize = FALSE
  /\ customVocab = Undefined
  /\ result = <<>>
  /\ prevResult = <<>>
  /\ traced = <<>>
  /\ decLength \in 0..(MaxTextLen + 1)
  /\ \E S \in SUBSET DecPairs(decLength) : decEdges = InLatticeOrder(S)
  /\ greedyPath = <<>>
  /\ viterbiPath = <<>>
  /\ backtracks = <<>>
  /\ vocabMode = HF_ROBERTA
  /\ inFlight = <<>>
  /\ switches = 0
  /\ showSteps = FALSE
  /\ stepFrames = <<>>
  /\ stepIndex = 0
  /\ isPlaying = FALSE

\* a call greedyDecode(decEdges, decLength)
GreedyDecode ==
  /\ greedyPath' = <<greedyDecode(decEdges, decLength)>>
  /\ UNCHANGED <<globals, args, result, prevResult, traced, decEdges, decLength, viterbiPath,
                 backtracks, app>>

\* a call viterbiDecode(decEdges, decLength)
ViterbiDecode ==
  /\ viterbiPath' = <<viterbiDecode(decEdges, decLength)>>
  /\ UNCHANGED <<globals, args, result, prevResult, traced, decEdges, decLength, greedyPath,
                 backtracks, app>>

NextDec ==
  \/ GreedyDecode
  \/ ViterbiDecode

SpecDec == InitDec /\ [][NextDec]_vars

\* the node a walk of edge ids ends at
EndOf(edges, path) == IF path = <<>> THEN 0 ELSE EdgeOfId(edges, Last(path)).to

\* ------------------------------------------------------------------------
\* C14: on an edge list in which a reached node has no outgoing edge, both
\* decoders return a path: greedyDecode returns the connected walk from node 0
\* it has accumulated, which stops only at node length or at a node that has
\* no outgoing edge, and viterbiDecode returns the empty path when node length
\* cannot be reached from node 0.
\* ------------------------------------------------------------------------
C14_DecodersSurviveDeadEnds ==
  /\ greedyPath # <<>> =>
       LET path == greedyPath[1]
           es   == [k \in 1..Len(path) |-> EdgeOfId(decEdges, path[k])]
       IN  /\ \A k \in 1..Len(path) : HasEdge(decEdges, path[k])
           /\ path # <<>> => es[1].from = 0
           /\ \A k \in 1..(Len(path) - 1) : es[k + 1].from = es[k].to
           /\ \/ EndOf(decEdges, path) = decLength
              \/ outgoingOf(decEdges, EndOf(decEdges, path)) = <<>>
  /\ viterbiPath # <<>> /\ PathsFrom(decEdges, 0, decLength) = {} =>
       viterbiPath[1] = <<>>

\* greedyDecode stopped after one edge at a node short of the end, and
\* viterbiDecode found the end unreachable
C14_Witness ==
  /\ greedyPath # <<>>
  /\ Len(greedyPath[1]) = 1
  /\ EndOf(decEdges, greedyPath[1]) < decLength
  /\ viterbiPath = << <<>> >>
  /\ PathsFrom(decEdges, 0, decLength) = {}

\* ------------------------------------------------------------------------
\* C15 as claimed: every edge of every lattice has the id
\* edge-{from}-{to}-{token}, where {token} is the label of the edge.
\* ------------------------------------------------------------------------
C15_EdgeIdNamesFromToLabel ==
  result # <<>> =>
    \A k \in 1..Len(result[1].graph.edges) :
      LET e == result[1].graph.edges[k]
      IN  e.id = edgeId(e.from, e.to, e.label)

\* ------------------------------------------------------------------------
\* Calls on texts around MAX_TOKEN_LENGTH characters, over vocabularies that
\* hold tokens of MAX_TOKEN_LENGTH and MAX_TOKEN_LENGTH + 1 characters
\* ------------------------------------------------------------------------
Repeat(c, n) == [k \in 1..n |-> c]

TextsLong ==
  {Repeat("a", n) : n \in (0..MaxTextLen) \cup
                          (MAX_TOKEN_LENGTH..(MAX_TOKEN_LENGTH + MaxTextLen))}
VocabLong ==
  <<VI(<<"a">>, 0), VI(Repeat("a", MAX_TOKEN_LENGTH), 1000),
    VI(Repeat("a", MAX_TOKEN_LENGTH + 1), 2000)>>
VocabArgsLong ==
  {Given(SelectSeq(VocabLong, LAMBDA v : v \in S)) :
     S \in SUBSET {VocabLong[k] : k \in 1..Len(VocabLong)}}

InitLong == InitWith(TextsLong, AlgorithmType, {FALSE}, VocabArgsLong)
SpecLong == InitLong /\ [][Next]_vars

\* ------------------------------------------------------------------------
\* C16: every lattice has exactly the nodes 0..len(text), and every edge
\* satisfies 0 <= from < to <= len(text) and to - from <= MAX_TOKEN_LENGTH;
\* the edges only move forward.
\* ------------------------------------------------------------------------
C16_LatticeShape ==
  result # <<>> =>
    LET g == result[1].graph
    IN  /\ g.nodes = [k \in 1..(Len(g.text) + 1) |-> k - 1]
        /\ \A k \in 1..Len(g.edges) :
             /\ 0 <= g.edges[k].from
             /\ g.edges[k].from < g.edges[k].to
             /\ g.edges[k].to <= Len(g.text)
             /\ g.edges[k].to - g.edges[k].from <= MAX_TOKEN_LENGTH

\* a text of MAX_TOKEN_LENGTH + 1 characters that is itself a vocabulary token
\* got an edge of MAX_TOKEN_LENGTH characters
C16_Witness ==
  /\ result # <<>>
  /\ Len(result[1].graph.text) = MAX_TOKEN_LENGTH + 1
  /\ find(vocabOf(customVocab), result[1].graph.text) # <<>>
  /\ \E k \in 1..Len(result[1].graph.edges) :
       span(result[1].graph.edges[k]) = MAX_TOKEN_LENGTH

\* ------------------------------------------------------------------------
\* Calls on texts of up to MaxTextLen + 1 characters over the sub-lists of a
\* vocabulary whose tokens overlap, so that a long first match can leave a
\* character no token starts at
\* ------------------------------------------------------------------------
TextsAN == SeqsUpTo({"a", "n"}, MaxTextLen + 1)
VocabAN == <<VI(<<"a">>, 1000), VI(<<"a", "a">>, 1000), VI(<<"a", "n">>, 1000)>>
VocabArgsAN ==
  {Given(SelectSeq(VocabAN, LAMBDA v : v \in S)) :
     S \in SUBSET {VocabAN[k] : k \in 1..Len(VocabAN)}}

InitAN == InitWith(TextsAN, AlgorithmType, {FALSE}, VocabArgsAN)
SpecAN == InitAN /\ [][Next]_vars

\* the paths from node 0 to the last node that use no fallback edge
VocabOnlyPaths(g) ==
  {p \in PathsFrom(g.edges, 0, Len(g.text)) : \A k \in 1..Len(p) : ~IsFallback(p[k])}

\* ------------------------------------------------------------------------
\* C17 as claimed: for every algorithm, a fallback edge is part of the
\* selectedPath only when the lattice has no complete path from node 0 to
\* node len(text) made of vocabulary-matched edges only.
\* ------------------------------------------------------------------------
C17_FallbackOnlyWithoutVocabPath ==
  result # <<>> /\ Len(result[1].graph.text) > 0 =>
    ((\E k \in 1..Len(result[1].selectedPath) : IsFallback(PathEdges(result[1])[k]))
       => VocabOnlyPaths(result[1].graph) = {})

\* the end positions j, i < j <= min(i + MAX_TOKEN_LENGTH, len(text)), at
\* which some entry of the vocabulary matches text[i:j]
MatchEnds(vocab, text, a, i) ==
  {j \in (i + 1)..Len(text) :
     /\ j <= i + MAX_TOKEN_LENGTH
     /\ \E k \in 1..Len(vocab) :
          \/ vocab[k].token = substring(text, i, j)
          \/ a = WORDPIECE /\ i > 0 /\ vocab[k].token = <<"#", "#">> \o substring(text, i, j)}

\* ------------------------------------------------------------------------
\* C18: buildLattice emits a fallback edge at position i if and only if no
\* vocabulary entry matches any text[i:j] with i < j <= min(i + 20, len(text));
\* in that case it emits exactly one, from i to i + 1, labelled text[i], with
\* score 10, and position i has no other outgoing edge.
\* ------------------------------------------------------------------------
C18_FallbackIffNoMatch ==
  result # <<>> =>
    LET text == result[1].graph.text
        out(i) == outgoingOf(result[1].graph.edges, i)
    IN  \A i \in 0..(Len(text) - 1) :
          /\ (\E k \in 1..Len(out(i)) : IsFallback(out(i)[k]))
               <=> MatchEnds(vocabOf(customVocab), text, algo, i) = {}
          /\ MatchEnds(vocabOf(customVocab), text, algo, i) = {} =>
               /\ Len(out(i)) = 1
               /\ out(i)[1].from = i
               /\ out(i)[1].to = i + 1
               /\ out(i)[1].label = <<text[i + 1]>>
               /\ out(i)[1].score = 10 * Scale

\* one lattice holds a position with a fallback edge and a position with a
\* vocabulary edge
C18_Witness ==
  /\ result # <<>>
  /\ customVocab.given
  /\ \E k \in 1..Len(result[1].graph.edges) : IsFallback(result[1].graph.edges[k])
  /\ \E k \in 1..Len(result[1].graph.edges) : ~IsFallback(result[1].graph.edges[k])

\* the index of the first entry of the vocabulary with the given token
FirstIdx(vs, tok) == MinOf({k \in 1..Len(vs) : vs[k].token = tok})

\* ------------------------------------------------------------------------
\* C19 as claimed: when the vocabulary holds several entries with the same
\* token, the first one in vocabulary order wins: a matched edge takes its
\* label and its score (Unigram probability, BPE rank) from that first entry.
\* ------------------------------------------------------------------------
C19_FirstDuplicateWins ==
  result # <<>> =>
    LET edges == result[1].graph.edges
        vocab == vocabOf(customVocab)
    IN  \A k \in 1..Len(edges) :
          ~IsFallback(edges[k]) =>
            LET first == FirstIdx(vocab, edges[k].label)
            IN  /\ edges[k].label = vocab[first].token
                /\ algo = BPE => edges[k].score = (first - 1) * Scale
                /\ algo = UNIGRAM =>
                     edges[k].score = NegLog([num |-> ExpMilli(vocab[first].score),
                                              den |-> ExpSumOf(vocab)])

\* the node the k-th frame of a greedy trace looks at or leaves: node 0 for
\* the first frame, else the end of the edge chosen last
NodeBefore(frames, edges, k) ==
  IF k = 1 THEN 0
  ELSE LET j == MaxOf({m \in 1..(k - 1) : frames[m].chosen # <<>>})
       IN  EdgeOfId(edges, frames[j].chosen[1]).to

\* ------------------------------------------------------------------------
\* C20: in a BPE or WordPiece trace the frames alternate consideration then
\* resolution, in the order the nodes are visited: the consideration frame of
\* node c lists exactly the edges leaving c and carries the path chosen so
\* far; the next frame's chosen edge is one of those candidates and its
\* partialPath is the previous partialPath with the chosen edge appended.
\* ------------------------------------------------------------------------
C20_GreedyFramesAlternate ==
  traced # <<>> /\ algo \in {BPE, WORDPIECE} =>
    LET frames == traced[1].frames
        edges  == traced[1].result.graph.edges
    IN  /\ Len(frames) = 2 * Len(traced[1].result.selectedPath)
        /\ \A k \in 1..Len(frames) :
             IF k % 2 = 1
             THEN LET c == NodeBefore(frames, edges, k)
                  IN  /\ frames[k].id = frameId(Consider, NumStr(c))
                      /\ frames[k].chosen = <<>>
                      /\ frames[k].candidates = idsOf(outgoingOf(edges, c))
                      /\ frames[k].partialPath =
                           (IF k = 1 THEN <<>> ELSE frames[k - 1].partialPath)
             ELSE /\ frames[k].chosen # <<>>
                  /\ frames[k].id = frameId(Choose, frames[k].chosen[1])
                  /\ \E m \in 1..Len(frames[k - 1].candidates) :
                       frames[k - 1].candidates[m] = frames[k].chosen[1]
                  /\ frames[k].partialPath =
                       Append(frames[k - 1].partialPath, frames[k].chosen[1])

\* a greedy trace of two steps: the second consideration frame carries the
\* edge chosen at node 0
C20_Witness ==
  /\ traced # <<>>
  /\ algo \in {BPE, WORDPIECE}
  /\ Len(traced[1].frames) = 4
  /\ Len(traced[1].frames[3].partialPath) = 1
  /\ traced[1].frames[4].chosen # <<>>

\* ------------------------------------------------------------------------
\* Unigram calls: the cost-minimising decoder and its trace
\* ------------------------------------------------------------------------
InitUni == InitWith(Texts, {UNIGRAM}, {FALSE}, VocabArgs)
SpecUni == InitUni /\ [][Next]_vars

\* String.prototype.startsWith
startsWith(s, prefix) == Len(s) >= Len(prefix) /\ SubSeq(s, 1, Len(prefix)) = prefix

\* `frame-${kind}-`
framePrefix(kind) == <<"f", "r", "a", "m", "e", "-">> \o kind \o <<"-">>

\* the positions of the frames of one kind in a frame list
FramesOfKind(frames, kind) ==
  {k \in 1..Len(frames) : startsWith(frames[k].id, framePrefix(kind))}

\* ------------------------------------------------------------------------
\* C21: in a Unigram trace exactly one backtrack frame is emitted per edge of
\* the selectedPath, after all consideration and update frames; the k-th
\* backtrack frame's partialPath is the last k edges of the final path, and
\* the last backtrack frame carries the full path.
\* ------------------------------------------------------------------------
C21_OneBacktrackFramePerPathEdge ==
  traced # <<>> /\ algo = UNIGRAM =>
    LET frames == traced[1].frames
        path   == traced[1].result.selectedPath
        m      == Len(frames)
        n      == Len(path)
    IN  /\ m >= n
        /\ FramesOfKind(frames, Backtrack) = (m - n + 1)..m
        /\ FramesOfKind(frames, Consider) \cup FramesOfKind(frames, Update) = 1..(m - n)
        /\ \A k \in 1..n :
             /\ frames[m - n + k].partialPath = SubSeq(path, n - k + 1, n)
             /\ frames[m - n + k].chosen = <<path[n - k + 1]>>

\* a Unigram trace whose path has two edges: two backtrack frames, the first
\* carrying the last edge only
C21_Witness ==
  /\ traced # <<>>
  /\ algo = UNIGRAM
  /\ Len(traced[1].result.selectedPath) = 2
  /\ Cardinality(FramesOfKind(traced[1].frames, Backtrack)) = 2
  /\ Len(traced[1].frames[Len(traced[1].frames) - 1].partialPath) = 1

\* the cost table a frame shows, and the one shown just before frame k (the
\* initial table before the first frame)
SnapOf(f) == f.viterbiSnapshot[1]
SnapBefore(frames, length, k) ==
  IF k = 1 THEN snapshotOf(initMinCost(length), length) ELSE SnapOf(frames[k - 1])

\* the position of the last consideration frame before frame k
LastConsider(frames, k) == MaxOf({j \in 1..(k - 1) : j \in FramesOfKind(frames, Consider)})

\* the index of an edge id in a list of ids
IndexOfId(ids, id) == MinOf({j \in 1..Len(ids) : ids[j] = id})

\* ------------------------------------------------------------------------
\* C22: in a Unigram trace an update frame is emitted exactly when relaxing
\* an edge strictly lowers the cost of its target node, right after that
\* update and before the next edge is relaxed: its snapshot is the table shown
\* before with the target node set to the new cost, that edge and its
\* predecessor node; every other frame shows the table unchanged, so every
\* change of the table has its frame and the last table is the decoder's;
\* node 0 always has cost 0 and no node's cost rises from frame to frame.
\* ------------------------------------------------------------------------
C22_UpdateFrameOnStrictImprovement ==
  traced # <<>> /\ algo = UNIGRAM =>
    LET frames == traced[1].frames
        edges  == traced[1].result.graph.edges
        length == Len(traced[1].result.graph.text)
    IN  /\ \A k \in 1..Len(frames) :
             LET before == SnapBefore(frames, length, k)
                 now    == SnapOf(frames[k])
             IN  /\ now[1].cost = 0
                 /\ \A v \in 1..(length + 1) : now[v].cost <= before[v].cost
                 /\ IF k \in FramesOfKind(frames, Update)
                    THEN LET e == EdgeOfId(edges, frames[k].chosen[1])
                             c == LastConsider(frames, k)
                         IN  /\ frames[k].id =
                                  frameId(Update, NumStr(e.from) \o <<"-">> \o NumStr(e.to))
                             /\ frames[c].id = frameId(Consider, NumStr(e.from))
                             /\ \A j \in (c + 1)..(k - 1) :
                                  /\ j \in FramesOfKind(frames, Update)
                                  /\ IndexOfId(frames[c].candidates, frames[j].chosen[1])
                                       < IndexOfId(frames[c].candidates, e.id)
                             /\ before[e.from + 1].cost + e.score < before[e.to + 1].cost
                             /\ now = [before EXCEPT ![e.to + 1] =
                                         [node |-> e.to,
                                          cost |-> before[e.from + 1].cost + e.score,
                                          edgeId |-> e.id,
                                          prev |-> e.from]]
                    ELSE now = before
        /\ frames # <<>> =>
             SnapOf(Last(frames)) =
               snapshotOf(viterbiForward(edges, length, 0, initMinCost(length)), length)

\* a node that had been reached was given a lower cost by a later edge: two
\* update frames aim at the same node
C22_Witness ==
  /\ traced # <<>>
  /\ algo = UNIGRAM
  /\ \E j, k \in FramesOfKind(traced[1].frames, Update) :
       /\ j < k
       /\ EdgeOfId(traced[1].result.graph.edges, traced[1].frames[j].chosen[1]).to =
            EdgeOfId(traced[1].result.graph.edges, traced[1].frames[k].chosen[1]).to

\* ------------------------------------------------------------------------
\* C23: every frame of a Unigram trace carries a viterbiSnapshot with exactly
\* one entry per node 0..len(text); no frame of a BPE or WordPiece trace
\* carries a viterbiSnapshot.
\* ------------------------------------------------------------------------
C23_SnapshotOnlyInUnigramFrames ==
  traced # <<>> =>
    LET frames == traced[1].frames
        length == Len(traced[1].result.graph.text)
    IN  \A k \in 1..Len(frames) :
          IF algo = UNIGRAM
          THEN /\ frames[k].viterbiSnapshot # <<>>
               /\ Len(SnapOf(frames[k])) = length + 1
               /\ \A v \in 1..(length + 1) : SnapOf(frames[k])[v].node = v - 1
          ELSE frames[k].viterbiSnapshot = <<>>

\* a Unigram trace over a text of three characters: consideration, update and
\* backtrack frames, each with four snapshot entries
C23_Witness ==
  /\ traced # <<>>
  /\ algo = UNIGRAM
  /\ Len(traced[1].result.graph.text) = 3
  /\ FramesOfKind(traced[1].frames, Consider) # {}
  /\ FramesOfKind(traced[1].frames, Update) # {}
  /\ FramesOfKind(traced[1].frames, Backtrack) # {}
  /\ Len(SnapOf(traced[1].frames[1])) = 4

\* ------------------------------------------------------------------------
\* validationRunner.ts: computeBacktracks
\* ------------------------------------------------------------------------
computeBacktracks(a, frames) ==
  IF a = UNIGRAM
  THEN Len(SelectSeq(frames, LAMBDA f : startsWith(f.id, framePrefix(Update))))
  ELSE 0

\* runValidation: computeBacktracks(algo, frames) on the frames the case's
\* tokenizeWithTrace call returned
ComputeBacktracks ==
  /\ traced # <<>>
  /\ backtracks' = <<computeBacktracks(algo, traced[1].frames)>>
  /\ UNCHANGED <<globals, args, result, prevResult, traced, dec, app>>

InitVal == InitWith(Texts, AlgorithmType, {FALSE}, VocabArgs)

NextVal ==
  \/ TokenizeWithTrace
  \/ ComputeBacktracks

SpecVal == InitVal /\ [][NextVal]_vars

\* the update frames whose target node had a finite cost before the update
UpdatesOfReachedNodes(frames, edges, length) ==
  {k \in FramesOfKind(frames, Update) :
     SnapBefore(frames, length, k)[EdgeOfId(edges, frames[k].chosen[1]).to + 1].cost
       # Infinity}

\* ------------------------------------------------------------------------
\* C24 as claimed: for Unigram, computeBacktracks returns the number of
\* cost-table updates made to a node that had already been reached; the
\* update that first reaches a node is not counted. For BPE and WordPiece it
\* returns 0.
\* ------------------------------------------------------------------------
C24_BacktracksCountReUpdates ==
  backtracks # <<>> =>
    backtracks[1] =
      IF algo = UNIGRAM
      THEN Cardinality(UpdatesOfReachedNodes(traced[1].frames,
                                             traced[1].result.graph.edges,
                                             Len(traced[1].result.graph.text)))
      ELSE 0

\* ------------------------------------------------------------------------
\* C25 as claimed: once the load of /vocab.json has succeeded with a
\* non-empty vocabulary, MOCK_VOCAB and the UNIGRAM_PROBS and BPE_RANKS tables
\* derived from it are those of the loaded vocabulary; the fallback
\* vocabulary is in use only if the load failed.
\* ------------------------------------------------------------------------
C25_LoadedVocabBecomesMockVocab ==
  fetchState = "settled" /\ VOCAB_LOADED /\ VOCAB_DATA \in ServedVocabs /\ Len(VOCAB_DATA) > 0 =>
    /\ MOCK_VOCAB = SortByScoreDesc(VOCAB_DATA)
    /\ UNIGRAM_PROBS = ProbTable(VOCAB_DATA)
    /\ BPE_RANKS = RankTable(SortByScoreDesc(VOCAB_DATA))

\* ------------------------------------------------------------------------
\* Calls with and without a vocabulary argument, interleaved with each other
\* and with the settling of the vocabulary load
\* ------------------------------------------------------------------------
VocabArgsPure == {Undefined} \cup {Given(<<>>)} \cup {Given(<<v>>) : v \in VocabItems}
InitPure == InitWith(TextsWP, AlgorithmType, {FALSE}, VocabArgsPure)
SpecPure == InitPure /\ [][Next]_vars

AppTexts == {<<"a", "n">>, <<" ">>, <<>>}

\* loadHFPreset: the items the preset file of a mode yields, by descending score
HFVocabOf(mode) ==
  IF mode = HF_ROBERTA
  THEN <<VI(<<"a", "n">>, 1000), VI(<<"a">>, 0)>>
  ELSE <<VI(<<"a">>, 1000), VI(<<"n">>, 0)>>

RemoveAt(s, k) == SubSeq(s, 1, k - 1) \o SubSeq(s, k + 1, Len(s))

\* mutant: the auto-play effect does not reset isPlaying
autoPlayEffect_noReset(show, frames, playing) == playing

\* the auto-play effect: without showSteps or without frames it calls
\* setIsPlaying(false)
autoPlayEffect(show, frames, playing) == playing /\ show /\ frames # <<>>

\* what the tokenization effect computes: tokenizeWithTrace when showSteps,
\* tokenize and no frames otherwise
tokenizationEffect(text, cv, show) ==
  IF show THEN tokenizeWithTrace(text, algo, normalize, cv)
  ELSE [result |-> tokenize(text, algo, normalize, cv), frames |-> <<>>]

\* the state after the effects: run says whether the tokenization effect
\* ran past its empty-text return, out is what it computed
EffectsOf(run, out, show, playing) ==
  [result    |-> IF run THEN <<out.result>> ELSE result,
   frames    |-> IF run THEN out.frames ELSE stepFrames,
   stepIndex |-> IF run THEN 0 ELSE stepIndex,
   isPlaying |-> autoPlayEffect(show, IF run THEN out.frames ELSE stepFrames, playing)]

\* the tokenization effect (when retokenize, and unless the text is empty)
\* followed by the auto-play effect, as values of result, frames, stepIndex
\* and isPlaying
AppEffects(text, cv, show, playing, retokenize) ==
  EffectsOf(retokenize /\ text # <<>>, tokenizationEffect(text, cv, show), show, playing)

ApplyEffects(e) ==
  /\ result' = e.result
  /\ stepFrames' = e.frames
  /\ stepIndex' = e.stepIndex
  /\ isPlaying' = e.isPlaying

\* the state after mount: both effects have run once
InitApp ==
  /\ VOCAB_DATA = <<>>
  /\ VOCAB_LOADED = FALSE
  /\ fetchState = "pending"
  /\ MOCK_VOCAB = SortByScoreDesc(FALLBACK_VOCAB)
  /\ UNIGRAM_PROBS = ProbTable(FALLBACK_VOCAB)
  /\ BPE_RANKS = RankTable(SortByScoreDesc(FALLBACK_VOCAB))
  /\ inputText \in AppTexts
  /\ algo \in AlgorithmType
  /\ normalize = TRUE
  /\ customVocab = Undefined
  /\ result = IF inputText = <<>> THEN <<>>
              ELSE <<tokenize(inputText, algo, normalize, customVocab)>>
  /\ prevResult = <<>>
  /\ traced = <<>>
  /\ decEdges = <<>>
  /\ decLength = 0
  /\ greedyPath = <<>>
  /\ viterbiPath = <<>>
  /\ backtracks = <<>>
  /\ vocabMode = HF_ROBERTA
  /\ inFlight = <<HF_ROBERTA>>
  /\ switches = 0
  /\ showSteps = FALSE
  /\ stepFrames = <<>>
  /\ stepIndex = 0
  /\ isPlaying = FALSE

appRest == <<globals, algo, normalize, prevResult, traced, dec, backtracks>>

\* the user picks the other vocabulary: the effect starts loadVocab()
SetVocabMode ==
  /\ switches < MaxSwitches
  /\ \E m \in VocabMode \ {vocabMode} :
       /\ vocabMode' = m
       /\ inFlight' = Append(inFlight, m)
  /\ switches' = switches + 1
  /\ UNCHANGED <<appRest, inputText, customVocab, result, showSteps, stepFrames,
                 stepIndex, isPlaying>>

\* one loadVocab() call resumes after its await: setCustomVocab(newVocab)
AppLoadVocabDone ==
  /\ \E k \in 1..Len(inFlight), ok \in BOOLEAN :
       LET newVocab == IF ok THEN Given(HFVocabOf(inFlight[k])) ELSE Undefined
       IN  /\ customVocab' = newVocab
           /\ inFlight' = RemoveAt(inFlight, k)
           /\ ApplyEffects(AppEffects(inputText, newVocab, showSteps, isPlaying,
                                      newVocab.given \/ customVocab.given))
  /\ UNCHANGED <<appRest, inputText, vocabMode, switches, showSteps>>

SetText ==
  /\ \E t \in AppTexts \ {inputText} :
       /\ inputText' = t
       /\ ApplyEffects(AppEffects(t, customVocab, showSteps, isPlaying, TRUE))
  /\ UNCHANGED <<appRest, customVocab, vocabMode, inFlight, switches, showSteps>>

ToggleShowSteps ==
  /\ showSteps' = ~showSteps
  /\ ApplyEffects(AppEffects(inputText, customVocab, ~showSteps, isPlaying, TRUE))
  /\ UNCHANGED <<appRest, inputText, customVocab, vocabMode, inFlight, switches>>

\* the Play / Pause button, rendered while showSteps
TogglePlay ==
  /\ showSteps
  /\ isPlaying' = autoPlayEffect(showSteps, stepFrames, ~isPlaying)
  /\ UNCHANGED <<appRest, inputText, customVocab, result, vocabMode, inFlight, switches,
                 showSteps, stepFrames, stepIndex>>

\* the interval callback: setStepIndex(prev => ...)
Tick ==
  /\ isPlaying
  /\ IF stepIndex >= Len(stepFrames) - 1
     THEN isPlaying' = FALSE /\ stepIndex' = stepIndex
     ELSE isPlaying' = isPlaying /\ stepIndex' = stepIndex + 1
  /\ UNCHANGED <<appRest, inputText, customVocab, result, vocabMode, inFlight, switches,
                 showSteps, stepFrames>>

\* the Prev button
StepPrev ==
  /\ showSteps
  /\ stepIndex' = MaxOf({0, stepIndex - 1})
  /\ UNCHANGED <<appRest, inputText, customVocab, result, vocabMode, inFlight, switches,
                 showSteps, stepFrames, isPlaying>>

\* the Next button: Math.min((maxSteps || 1) - 1, stepIndex + 1)
StepNext ==
  /\ showSteps
  /\ stepIndex' = MinOf({(IF Len(stepFrames) = 0 THEN 1 ELSE Len(stepFrames)) - 1,
                         stepIndex + 1})
  /\ UNCHANGED <<appRest, inputText, customVocab, result, vocabMode, inFlight, switches,
                 showSteps, stepFrames, isPlaying>>

NextApp ==
  \/ SetVocabMode
  \/ AppLoadVocabDone
  \/ SetText
  \/ ToggleShowSteps
  \/ TogglePlay
  \/ Tick
  \/ StepPrev
  \/ StepNext

SpecApp == InitApp /\ [][NextApp]_vars

C29_OneEdgePerSpan ==
  result # <<>> =>
    LET edges == result[1].graph.edges
        n     == Len(edges)
    IN  /\ \A j, k \in 1..n :
             j # k => /\ <<edges[j].from, edges[j].to>> # <<edges[k].from, edges[k].to>>
                      /\ edges[j].id # edges[k].id
        /\ \A p \in 1..Len(result[1].selectedPath) :
             Cardinality({k \in 1..n : edges[k].id = result[1].selectedPath[p]}) = 1
        /\ \A j, k \in 1..n :
             (j # k /\ edges[j].from = edges[k].from) => span(edges[j]) # span(edges[k])

\* a vocabulary that lists one token twice matched the text
C29_Witness ==
  /\ result # <<>>
  /\ Len(customVocab.items) = 2
  /\ customVocab.items[1].token = customVocab.items[2].token
  /\ \E k \in 1..Len(result[1].graph.edges) :
       result[1].graph.edges[k].label = customVocab.items[1].token

\* tokens.join("")
Concat(tokens) == Flatten(tokens)

\* ------------------------------------------------------------------------
\* C30: every edge label equals text[from:to], except in WordPiece mode at
\* from > 0, where it may instead be "##" + text[from:to]; tokens[k] is the
\* label of the k-th selected edge; and for BPE and Unigram the tokens
\* concatenated in order are exactly the text of the graph.
\* ------------------------------------------------------------------------
C30_LabelsSpellTheText ==
  result # <<>> =>
    LET text  == result[1].graph.text
        edges == result[1].graph.edges
    IN  /\ \A k \in 1..Len(edges) :
             \/ edges[k].label = substring(text, edges[k].from, edges[k].to)
             \/ /\ algo = WORDPIECE
                /\ edges[k].from > 0
                /\ edges[k].label = <<"#", "#">> \o substring(text, edges[k].from, edges[k].to)
        /\ Len(result[1].tokens) = Len(result[1].selectedPath)
        /\ \A k \in 1..Len(result[1].selectedPath) :
             result[1].tokens[k] = PathEdges(result[1])[k].label
        /\ algo \in {BPE, UNIGRAM} => Concat(result[1].tokens) = text

\* WordPiece returned a continuation-marked token after a single-character
\* token, so there the tokens do not spell the text
C30_Witness ==
  /\ result # <<>>
  /\ algo = WORDPIECE
  /\ result[1].graph.text = <<"a", "n">>
  /\ result[1].tokens = << <<"a">>, <<"#", "#", "n">> >>

====
